---- MODULE Spec2Model ----
(***************************************************************************)
(* A model of check_alerts.py, the Dependabot policy enforcer: one run of  *)
(* main_check_alerts is a sequence of steps (fetch alerts, analyze,        *)
(* format, read event, locate the pull request, publish the comment,       *)
(* revoke the token, exit); runs follow one another on the same            *)
(* repository, whose pull-request comments outlive a run.                  *)
(*                                                                         *)
(* Text is a sequence of string pieces: an f-string is the sequence of its *)
(* literal parts and its rendered values, and "\n".join(lines) is the      *)
(* concatenation of the lines with a "\n" piece between them.  A time is a *)
(* number of seconds; a timedelta's .days is its floor division by a day.  *)
(***************************************************************************)
EXTENDS Integers, Sequences, FiniteSets, TLC

\* ---------------------------------------------------------------- bounds

\* Alerts in one list handed to analyze_alerts on its own (SpecAnalyze).
MaxAlerts == 2
\* Alerts the API returns to one run of main_check_alerts (Spec).
MaxRunAlerts == 1
\* Open pull requests of the repository when get_pr_number runs on its own
\* (SpecLocate).
MaxPulls == 3
\* Seconds the clock may advance while analyze_alerts runs on its own.
MaxTick == 1
\* Entries in each list handed to format_alert_output on its own (SpecFormat).
MaxReport == 2

\* ------------------------------------------------------------- constants

\* timedelta.days counts whole days of 86400 seconds.
SecondsPerDay == 86400
\* The clock when a run's analysis starts (day 100 of the epoch).
Now0 == 100 * SecondsPerDay

Marker == "## Dependabot Alert Summary"

\* Python's None, and a present value v, as an optional: {} and {v}.
None == {}
Some(v) == {v}
TheValue(o) == CHOOSE v \in o : TRUE

\* ------------------------------------------------------------ small helpers

Range(s) == {s[i] : i \in 1..Len(s)}

SeqsUpTo(S, n) == UNION {[1..k -> S] : k \in 0..n}

RECURSIVE Join(_, _)
\* sep.join(lines), each line a sequence of pieces.
Join(lines, sep) ==
    IF lines = <<>> THEN <<>>
    ELSE IF Len(lines) = 1 THEN lines[1]
    ELSE lines[1] \o <<sep>> \o Join(Tail(lines), sep)

\* `needle in body` for the marker: the marker is one literal piece of every
\* text that holds it.
Contains(body, needle) == \E i \in 1..Len(body) : body[i] = needle

\* ------------------------------------------------------------ thresholds

\* get_thresholds_from_env() with no INPUT_*_THRESHOLD set.
get_thresholds_from_env ==
    [CRITICAL |-> 3, HIGH |-> 5, MEDIUM |-> 14, LOW |-> 30]

\* The tables analyze_alerts is called with: the environment's defaults, and
\* the partial table the tests of main_check_alerts pass.
ThresholdTables == {get_thresholds_from_env, [HIGH |-> 5]}

\* ----------------------------------------------------------------- alerts

AlertStates == {"open", "dismissed"}

\* Severities as the API spells them (lower case) and in other cases.
Severities == {"high", "LOW", "critical"}

\* str.upper() on the severities of the model.
upper(s) ==
    CASE s = "high" -> "HIGH"
      [] s = "LOW" -> "LOW"
      [] s = "critical" -> "CRITICAL"
      [] s = "medium" -> "MEDIUM"
      [] OTHER -> s

\* created_at of an alert: five hours old, two days old, one second short of
\* six days old, 35 days old, and one day in the future.
CreatedAts ==
    {Now0 - 5 * 3600, Now0 - 2 * SecondsPerDay, Now0 - 6 * SecondsPerDay + 1,
     Now0 - 35 * SecondsPerDay, Now0 + SecondsPerDay}

\* A raw alert of the API; html_url identifies it (its place in the list).
\* The package name and the advisory summary are copied through unread and
\* are left out.
RawAlerts == [state : AlertStates, severity : Severities, created_at : CreatedAts]

WithUrls(l) == [i \in 1..Len(l) |->
    [state |-> l[i].state, severity |-> l[i].severity,
     created_at |-> l[i].created_at, html_url |-> i]]

AlertLists(n) == {WithUrls(l) : l \in SeqsUpTo(RawAlerts, n)}

\* The clock as the successive get_alert_age calls of one analysis may read
\* it: one reading per alert of the list, never going back.
ClockReads(n) ==
    {r \in [1..n -> Now0..(Now0 + MaxTick)] :
        \A i \in 1..n, j \in 1..n : i <= j => r[i] <= r[j]}

\* get_alert_age that rounds towards zero.
get_alert_age_truncating(created_at, now) ==
    LET age == now - created_at
    IN  IF age >= 0 THEN age \div SecondsPerDay
        ELSE 0 - ((0 - age) \div SecondsPerDay)

\* get_alert_age(created_at), `now` being the clock at the call.
get_alert_age(created_at, now) ==
    LET age == now - created_at
    IN  age \div SecondsPerDay

\* alert.created_at.strftime("%Y-%m-%d %H:%M:%S UTC"): the rendered time
\* (the seconds of the epoch, written out) followed by the zone.
strftime(created_at) == ToString(created_at) \o " UTC"

\* not_open with the filter dropped.
not_open_never(alert) == FALSE

\* `not alert.state == "open"`
not_open(alert) == ~(alert.state = "open")

\* exceeds with the comparison made non-strict.
exceeds_or_equals(age, threshold) == age >= threshold

\* `age > threshold`
exceeds(age, threshold) == age > threshold

RECURSIVE analyze_loop(_, _, _, _, _, _)
\* The loop of analyze_alerts from alert i on.  A threshold lookup that
\* misses gives None, and `age > None` raises TypeError: nothing is returned.
analyze_loop(alerts, ALERT_THRESHOLDS, now, i, violations, all_alerts) ==
    IF i > Len(alerts)
    THEN [raised |-> "", violations |-> violations, all_alerts |-> all_alerts]
    ELSE LET alert == alerts[i] IN
         IF not_open(alert)
         THEN analyze_loop(alerts, ALERT_THRESHOLDS, now, i + 1,
                           violations, all_alerts)
         ELSE LET severity == upper(alert.severity)
                  age == get_alert_age(alert.created_at, now[i])
              IN  IF severity \notin DOMAIN ALERT_THRESHOLDS
                  THEN [raised |-> "TypeError", violations |-> <<>>,
                        all_alerts |-> <<>>]
                  ELSE LET threshold == ALERT_THRESHOLDS[severity]
                           alert_info ==
                               [severity |-> severity,
                                age_days |-> age,
                                threshold_days |-> threshold,
                                url |-> alert.html_url,
                                created_at |-> strftime(alert.created_at)]
                       IN  analyze_loop(alerts, ALERT_THRESHOLDS, now, i + 1,
                               IF exceeds(age, threshold)
                               THEN Append(violations, alert_info)
                               ELSE violations,
                               Append(all_alerts, alert_info))

\* analyze_alerts that catches the error and returns two empty lists.
analyze_alerts_lenient(alerts, ALERT_THRESHOLDS, now) ==
    LET r == analyze_loop(alerts, ALERT_THRESHOLDS, now, 1, <<>>, <<>>)
    IN  [raised |-> "", violations |-> r.violations, all_alerts |-> r.all_alerts]

\* analyze_alerts(alerts, ALERT_THRESHOLDS); now[i] is datetime.now() as the
\* get_alert_age call for alert i reads it.
analyze_alerts(alerts, ALERT_THRESHOLDS, now) ==
    analyze_loop(alerts, ALERT_THRESHOLDS, now, 1, <<>>, <<>>)

\* ------------------------------------------------------------- formatter

RECURSIVE violation_blocks(_)
\* The five lines format_alert_output appends per violation.
violation_blocks(violations) ==
    IF violations = <<>> THEN <<>>
    ELSE LET violation == Head(violations) IN
         << <<"\n\n#### ">>,
            <<"- **Severity:** ", violation.severity>>,
            <<"- **Age:** ", ToString(violation.age_days),
              " days (Threshold: ", ToString(violation.threshold_days), " days)">>,
            <<"- **Created:** ", violation.created_at>>,
            <<"- **URL:** ", ToString(violation.url)>> >>
         \o violation_blocks(Tail(violations))

\* The first line of the report.
header_line == <<Marker>>

WarningLine == "\n:warning: Alerts exceed age thresholds but running in report mode"
FailureLine == "\n:no_entry: Action failed due to alerts exceeding age thresholds"
SuccessLine == "\n:white_check_mark: All alerts are within acceptable age thresholds"
ViolationsHeading == "\n### :x: Violations (Alerts exceeding threshold)"

\* output_lines that closes with the failure line in either mode.
output_lines_no_mode(violations, all_alerts, REPORT_MODE) ==
    << header_line,
       <<"Total open alerts: ", ToString(Len(all_alerts))>>,
       <<"Alerts exceeding age threshold: ", ToString(Len(violations))>> >>
    \o (IF violations # <<>>
        THEN << <<ViolationsHeading>> >>
             \o violation_blocks(violations)
             \o << <<FailureLine>> >>
        ELSE << <<SuccessLine>> >>)

\* The list `output` of format_alert_output before it is joined.
output_lines(violations, all_alerts, REPORT_MODE) ==
    << header_line,
       <<"Total open alerts: ", ToString(Len(all_alerts))>>,
       <<"Alerts exceeding age threshold: ", ToString(Len(violations))>> >>
    \o (IF violations # <<>>
        THEN << <<ViolationsHeading>> >>
             \o violation_blocks(violations)
             \o (IF REPORT_MODE THEN << <<WarningLine>> >>
                                ELSE << <<FailureLine>> >>)
        ELSE << <<SuccessLine>> >>)

format_alert_output(violations, all_alerts, REPORT_MODE) ==
    Join(output_lines(violations, all_alerts, REPORT_MODE), "\n")

\* ------------------------------------------------------------ PR locator

\* What GITHUB_EVENT_PATH holds: no readable JSON, or a payload.  A payload
\* is a dict with an optional "pull_request" (a dict with an optional
\* "number") and an optional "ref" (the pieces of the ref string, <<>> for
\* the empty string).
EmptyEvent == [pull_request |-> None, ref |-> None]

\* The number of the pull request of a run's branch.
ThePull == 123

EventPayloads ==
    { EmptyEvent,
      [pull_request |-> Some([number |-> None]), ref |-> None],
      [pull_request |-> Some([number |-> Some(0)]), ref |-> None],
      [pull_request |-> Some([number |-> Some(ThePull)]), ref |-> None],
      [pull_request |-> None, ref |-> Some(<<>>)],
      [pull_request |-> None, ref |-> Some(<<"refs/heads/", "foo">>)],
      [pull_request |-> None, ref |-> Some(<<"refs/heads/", "bar">>)],
      [pull_request |-> None, ref |-> Some(<<"refs/tags/", "v1">>)] }

EventFiles ==
    {[readable |-> FALSE, json |-> EmptyEvent]}
    \cup {[readable |-> TRUE, json |-> e] : e \in EventPayloads}

\* read_event_file(event_path): {} when the file cannot be read or parsed.
read_event_file(file) == IF file.readable THEN file.json ELSE EmptyEvent

EventNames == {"pull_request", "push", "schedule"}

\* The pull requests of a repository with several.
PullNumbers == ThePull..(ThePull + MaxPulls - 1)

\* What repo.get_pulls(state="open", head=...) answers in a repository whose
\* open pull requests are `pulls`: an error, or some of them, each once.
PullResponses(pulls) ==
    {[ok |-> FALSE, pulls |-> <<>>]}
    \cup {[ok |-> TRUE, pulls |-> l] : l \in
            {s \in SeqsUpTo(pulls, Cardinality(pulls)) :
                \A i \in 1..Len(s), j \in 1..Len(s) : i # j => s[i] # s[j]}}

\* Truthiness of an optional number: `if pr_number:`.
truthy(o) == o # None /\ TheValue(o) # 0

\* is_branch_ref that takes any ref for a branch.
is_any_ref(ref) == TRUE

\* ref.startswith("refs/heads/")
is_branch_ref(ref) == Len(ref) >= 1 /\ ref[1] = "refs/heads/"

\* get_pr_number(repo, event_name, event); `resp` is what the open-PR search
\* answers if it is made.  searched: whether repo.get_pulls was called;
\* raised: the search's error, which get_pr_number does not catch.
get_pr_number(event_name, event, resp) ==
    LET no_pr == [value |-> None, searched |-> FALSE, raised |-> ""] IN
    IF event_name = "pull_request"
    THEN LET pull_request == IF event.pull_request = None
                             THEN [number |-> None]
                             ELSE TheValue(event.pull_request)
             pr_number == pull_request.number
         IN  IF truthy(pr_number)
             THEN [value |-> pr_number, searched |-> FALSE, raised |-> ""]
             ELSE no_pr
    ELSE IF event_name = "push"
    THEN LET ref == event.ref IN
         IF ref # None /\ TheValue(ref) # <<>> /\ is_branch_ref(TheValue(ref))
         THEN IF ~resp.ok
              THEN [value |-> None, searched |-> TRUE, raised |-> "GithubException"]
              ELSE IF resp.pulls # <<>>
              THEN [value |-> Some(Head(resp.pulls)), searched |-> TRUE, raised |-> ""]
              ELSE [value |-> None, searched |-> TRUE, raised |-> ""]
         ELSE no_pr
    ELSE no_pr

\* ---------------------------------------------------------- alert fetcher

DisabledMessage == "Dependabot alerts are disabled for this repository."

\* What repo.get_dependabot_alerts(state="open") and list() of it answer.
FetchErrors ==
    { [type |-> "GithubException", status |-> 403, message |-> "Forbidden"],
      [type |-> "GithubException", status |-> 403, message |-> DisabledMessage],
      [type |-> "GithubException", status |-> 500, message |-> "Server Error"],
      [type |-> "Exception", status |-> 0, message |-> "General error"] }

FetchOk == [type |-> "", status |-> 200, message |-> ""]

\* The alerts of a run are the open ones the API was asked for.
RunAlerts ==
    { [state |-> "open", severity |-> "high", created_at |-> Now0 - 35 * SecondsPerDay],
      [state |-> "open", severity |-> "LOW", created_at |-> Now0 - 5 * 3600] }

RunAlertLists == {WithUrls(l) : l \in SeqsUpTo(RunAlerts, MaxRunAlerts)}

\* is_forbidden with another status.
is_not_found(e) == e.status = 404

\* `e.status == 403`
is_forbidden(e) == e.status = 403

\* get_dependabot_alerts(repo) on the API's answer: return the alerts,
\* sys.exit(1), or re-raise.
get_dependabot_alerts(error, list) ==
    IF error.type = ""
    THEN [kind |-> "return", alerts |-> list, raised |-> ""]
    ELSE IF error.type = "GithubException"
    THEN IF is_forbidden(error)
         THEN [kind |-> "exit", alerts |-> <<>>, raised |-> ""]
         ELSE [kind |-> "raise", alerts |-> <<>>, raised |-> error.type]
    ELSE [kind |-> "raise", alerts |-> <<>>, raised |-> error.type]

\* ------------------------------------------------------ comment publisher

\* Comments a pull request holds before the first run: none, a reviewer's,
\* or a reviewer's and two that hold the marker.
HumanComment == <<"LGTM">>
ExistingComment == <<Marker, " - Existing Comment">>
OlderComment == <<Marker, " - Older Comment">>

InitialComments ==
    { <<>>, <<HumanComment>>, <<HumanComment, ExistingComment, OlderComment>> }

\* `"## Dependabot Alert Summary" in comment.body`
has_marker(body) == Contains(body, Marker)

MarkerCount(list) == Cardinality({i \in 1..Len(list) : has_marker(list[i])})

\* first_marked with the loop going on to the last marked comment.
last_marked(list) ==
    IF \E i \in 1..Len(list) : has_marker(list[i])
    THEN CHOOSE i \in 1..Len(list) :
            has_marker(list[i]) /\ \A j \in (i + 1)..Len(list) : ~has_marker(list[j])
    ELSE 0

\* The loop over pr.get_issue_comments(): the place of the first comment
\* that holds the marker, 0 when the loop ends without one.
first_marked(list) ==
    IF \E i \in 1..Len(list) : has_marker(list[i])
    THEN CHOOSE i \in 1..Len(list) :
            has_marker(list[i]) /\ \A j \in 1..(i - 1) : ~has_marker(list[j])
    ELSE 0


\* publish that never looks for an existing comment.
publish_always_create(list, found_at, body) ==
    [call |-> "create_issue_comment", comments |-> Append(list, body)]

\* `comment.edit(body)` on comment i, or `pr.create_issue_comment(body)`:
\* the call made for the outcome of the loop, and the comments after it.
publish(list, found_at, body) ==
    IF found_at > 0
    THEN [call |-> "edit", comments |-> [list EXCEPT ![found_at] = body]]
    ELSE [call |-> "create_issue_comment", comments |-> Append(list, body)]

\* What an API request of the publisher answers: success or an exception.
ApiErrors == {"", "GithubException", "Exception"}

\* An API request as the log of a run keeps it.
Call(api, error) == [api |-> api, error |-> error]

\* on_publish_error as the variant that prints and raises again.
on_publish_error_reraise(error) == "raise"

\* The except clauses of create_or_update_pr_comment: either kind of
\* exception is printed and the function returns.
on_publish_error(error) == "return"

\* should_post without the test for a PR number.
should_post_always(number) == TRUE

\* `if pr_number:` in post_pr_comment.
should_post(number) == truthy(number)

\* ------------------------------------------------------------- exit policy

\* exit_status with the report mode forgotten.
exit_status_blocking(violations, report_mode) ==
    IF violations # <<>> THEN 1 ELSE 0

\* `if violations and not report_mode: sys.exit(1)`, else `sys.exit(0)`.
exit_status(violations, report_mode) ==
    IF violations # <<>> /\ ~report_mode THEN 1 ELSE 0

RevokeCall == "DELETE /installation/token"

\* What the revocation request answers: success, a GithubException, or
\* another exception (a connection error), which nothing catches.
RevokeOutcomes == ApiErrors

\* revoke_installation_token that only prints the error.
revoke_installation_token_lenient(outcome) ==
    IF outcome \in {"", "GithubException"} THEN [kind |-> "return", raised |-> ""]
    ELSE [kind |-> "raise", raised |-> outcome]

\* revoke_installation_token(github) on the request's outcome.
revoke_installation_token(outcome) ==
    IF outcome = "" THEN [kind |-> "return", raised |-> ""]
    ELSE IF outcome = "GithubException" THEN [kind |-> "exit", raised |-> ""]
    ELSE [kind |-> "raise", raised |-> outcome]

\* ------------------------------------------------------------------ state

VARIABLES
    pc,                \* the step of main_check_alerts that runs next
    clock,             \* datetime.now() at each get_alert_age call of the run
    alert_thresholds,  \* main_check_alerts' arguments
    report_mode,
    event_name,
    fetch_error,       \* what the alert API answered (FetchOk or an error)
    alerts,            \* locals of main_check_alerts
    violations,
    all_alerts,
    output,
    event,
    pulls,             \* get_pr_number: what the open-PR search returned
    pr_number,
    found,             \* create_or_update_pr_comment: place of the marked comment
    open_pulls,        \* on GitHub: the open pull requests of the repository
    comments,          \* on GitHub: the issue comments of each pull request
    calls,             \* API requests this run has issued, in order
    steps,             \* functions main_check_alerts has called, in order
    exit_code,         \* None while the run lasts, then the process' status
    raised,            \* the exception that ended the run uncaught, if any
    other_pc,          \* a second run on the same pull request: its step
    other_found        \* ... and the place of the marked comment it found

vars == <<pc, clock, alert_thresholds, report_mode, event_name, fetch_error,
          alerts, violations, all_alerts, output, event, pulls, pr_number,
          found, open_pulls, comments, calls, steps, exit_code, raised,
          other_pc, other_found>>

args == <<alert_thresholds, report_mode, event_name>>
other == <<other_pc, other_found>>
locals == <<alerts, violations, all_alerts, output, event, pulls, pr_number,
            found>>

\* The locals and the logs as a run starts.
FreshRun ==
    /\ pc = "get_dependabot_alerts"
    /\ fetch_error = FetchOk
    /\ alerts = <<>>
    /\ violations = <<>>
    /\ all_alerts = <<>>
    /\ output = <<>>
    /\ event = EmptyEvent
    /\ pulls = <<>>
    /\ pr_number = None
    /\ found = 0
    /\ calls = <<>>
    /\ steps = <<>>
    /\ exit_code = None
    /\ raised = ""

\* No second run works on the repository.
NoOtherRun == other_pc = "idle" /\ other_found = 0

\* main_check_alerts is called with either threshold table, on a repository
\* with one open pull request; the analysis of a run is over before the clock
\* moves.
Init ==
    /\ FreshRun
    /\ clock = [i \in 1..MaxRunAlerts |-> Now0]
    /\ alert_thresholds \in ThresholdTables
    /\ report_mode \in BOOLEAN
    /\ event_name \in EventNames
    /\ open_pulls = {ThePull}
    /\ comments \in [open_pulls -> InitialComments]
    /\ NoOtherRun

\* The process ends: sys.exit(code), or an uncaught exception (status 1).
End(code, exception) ==
    /\ pc' = "done"
    /\ exit_code' = Some(code)
    /\ raised' = exception

Running(step) == pc = step /\ exit_code = None

\* ------------------------------------------------------------------ steps

\* alerts = get_dependabot_alerts(repo)
GetDependabotAlerts ==
    /\ Running("get_dependabot_alerts")
    /\ steps' = Append(steps, "get_dependabot_alerts")
    /\ \E error \in FetchErrors \cup {FetchOk}, list \in RunAlertLists :
        /\ (error # FetchOk => list = <<>>)
        /\ LET r == get_dependabot_alerts(error, list) IN
           /\ calls' = Append(calls, Call("get_dependabot_alerts", error.type))
           /\ fetch_error' = error
           /\ alerts' = r.alerts
           /\ IF r.kind = "return"
              THEN pc' = "analyze_alerts" /\ UNCHANGED <<exit_code, raised>>
              ELSE End(1, r.raised)
    /\ UNCHANGED <<other, clock, args, violations, all_alerts, output, event,
                   pulls, pr_number, found, open_pulls, comments>>

\* violations, all_alerts = analyze_alerts(alerts, alert_thresholds)
AnalyzeAlerts ==
    /\ Running("analyze_alerts")
    /\ steps' = Append(steps, "analyze_alerts")
    /\ LET a == analyze_alerts(alerts, alert_thresholds, clock) IN
        /\ violations' = a.violations
        /\ all_alerts' = a.all_alerts
        /\ IF a.raised = ""
           THEN pc' = "format_alert_output" /\ UNCHANGED <<exit_code, raised>>
           ELSE End(1, a.raised)
    /\ UNCHANGED <<other, clock, args, fetch_error, alerts, output, event, pulls, pr_number,
                   found, open_pulls, comments, calls>>

\* output = format_alert_output(violations, all_alerts, report_mode)
FormatAlertOutput ==
    /\ Running("format_alert_output")
    /\ steps' = Append(steps, "format_alert_output")
    /\ output' = format_alert_output(violations, all_alerts, report_mode)
    /\ pc' = "read_event_file"
    /\ UNCHANGED <<other, clock, args, fetch_error, alerts, violations,
                   all_alerts, event, pulls, pr_number, found, open_pulls, comments, calls,
                   exit_code, raised>>

\* event = read_event_file(event_path)
ReadEventFile ==
    /\ Running("read_event_file")
    /\ steps' = Append(steps, "read_event_file")
    /\ \E file \in EventFiles : event' = read_event_file(file)
    /\ pc' = "get_pr_number"
    /\ UNCHANGED <<other, clock, args, fetch_error, alerts, violations,
                   all_alerts, output, pulls, pr_number, found, open_pulls, comments, calls,
                   exit_code, raised>>

\* pr_number = get_pr_number(repo, event_name, event)
GetPrNumber ==
    /\ Running("get_pr_number")
    /\ steps' = Append(steps, "get_pr_number")
    /\ \E resp \in PullResponses(open_pulls) :
        LET r == get_pr_number(event_name, event, resp) IN
        /\ (~r.searched => resp = [ok |-> TRUE, pulls |-> <<>>])
        /\ pulls' = resp.pulls
        /\ pr_number' = r.value
        /\ calls' = IF r.searched
                    THEN Append(calls, Call("get_pulls", r.raised))
                    ELSE calls
        /\ IF r.raised = ""
           THEN pc' = "post_pr_comment" /\ UNCHANGED <<exit_code, raised>>
           ELSE End(1, r.raised)
    /\ UNCHANGED <<other, clock, args, fetch_error, alerts, violations,
                   all_alerts, output, event, found, open_pulls, comments>>

\* post_pr_comment(repo, pr_number, output): nothing without a PR number,
\* else create_or_update_pr_comment, which starts with repo.get_pull.
PostPrComment ==
    /\ Running("post_pr_comment")
    /\ steps' = Append(steps, "post_pr_comment")
    /\ pc' = IF should_post(pr_number) THEN "get_pull"
             ELSE "revoke_installation_token"
    /\ UNCHANGED <<other, clock, args, fetch_error, locals, open_pulls, comments, calls,
                   exit_code, raised>>

\* An exception inside create_or_update_pr_comment: its except clauses
\* decide; what they let through, post_pr_comment prints and raises again.
PublishFailed(error) ==
    IF on_publish_error(error) = "return"
    THEN pc' = "revoke_installation_token" /\ UNCHANGED <<exit_code, raised>>
    ELSE End(1, error)

\* pr = repo.get_pull(pr_number); a pull request that does not exist is a
\* GithubException (404).
GetPull ==
    /\ Running("get_pull")
    /\ \E error \in ApiErrors :
        /\ (TheValue(pr_number) \notin open_pulls => error = "GithubException")
        /\ calls' = Append(calls, Call("get_pull", error))
        /\ IF error = ""
           THEN pc' = "get_issue_comments" /\ UNCHANGED <<exit_code, raised>>
           ELSE PublishFailed(error)
    /\ UNCHANGED <<other, clock, args, fetch_error, locals, open_pulls, comments, steps>>

\* for comment in pr.get_issue_comments(): ... up to the marked comment.
GetIssueComments ==
    /\ Running("get_issue_comments")
    /\ \E error \in ApiErrors :
        /\ calls' = Append(calls, Call("get_issue_comments", error))
        /\ IF error = ""
           THEN /\ found' = first_marked(comments[TheValue(pr_number)])
                /\ pc' = "write_comment"
                /\ UNCHANGED <<exit_code, raised>>
           ELSE /\ found' = found
                /\ PublishFailed(error)
    /\ UNCHANGED <<other, clock, args, fetch_error, alerts, violations,
                   all_alerts, output, event, pulls, pr_number, open_pulls,
                   comments, steps>>

\* comment.edit(body) or pr.create_issue_comment(body); a request that
\* fails leaves the comments as they were.
WriteComment ==
    /\ Running("write_comment")
    /\ LET n == TheValue(pr_number)
           w == publish(comments[n], found, output)
       IN  \E error \in ApiErrors :
            /\ calls' = Append(calls, Call(w.call, error))
            /\ IF error = ""
               THEN /\ comments' = [comments EXCEPT ![n] = w.comments]
                    /\ pc' = "revoke_installation_token"
                    /\ UNCHANGED <<exit_code, raised>>
               ELSE /\ comments' = comments
                    /\ PublishFailed(error)
    /\ UNCHANGED <<other, clock, args, fetch_error, locals, open_pulls, steps>>

\* RevokeInstallationToken followed, the first time, by the comment step.
RevokeThenPublish ==
    /\ Running("revoke_installation_token")
    /\ steps' = Append(steps, "revoke_installation_token")
    /\ \E outcome \in RevokeOutcomes :
        LET r == revoke_installation_token(outcome) IN
        /\ calls' = Append(calls, Call(RevokeCall, outcome))
        /\ IF r.kind = "return"
           THEN /\ pc' = IF should_post(pr_number)
                            /\ \A i \in 1..Len(calls) : calls[i].api # RevokeCall
                         THEN "get_pull" ELSE "sys_exit"
                /\ UNCHANGED <<exit_code, raised>>
           ELSE End(1, r.raised)
    /\ UNCHANGED <<other, clock, args, fetch_error, locals, open_pulls, comments>>

\* revoke_installation_token(github)
RevokeInstallationToken ==
    /\ Running("revoke_installation_token")
    /\ steps' = Append(steps, "revoke_installation_token")
    /\ \E outcome \in RevokeOutcomes :
        LET r == revoke_installation_token(outcome) IN
        /\ calls' = Append(calls, Call(RevokeCall, outcome))
        /\ IF r.kind = "return"
           THEN pc' = "sys_exit" /\ UNCHANGED <<exit_code, raised>>
           ELSE End(1, r.raised)
    /\ UNCHANGED <<other, clock, args, fetch_error, locals, open_pulls, comments>>

\* if violations and not report_mode: sys.exit(1) / sys.exit(0)
SysExit ==
    /\ Running("sys_exit")
    /\ End(exit_status(violations, report_mode), "")
    /\ UNCHANGED <<other, clock, args, fetch_error, locals, open_pulls, comments, calls, steps>>

\* The workflow runs the script again, on the repository as the last run
\* left it.
NextRun ==
    /\ pc = "done"
    /\ pc' = "get_dependabot_alerts"
    /\ fetch_error' = FetchOk
    /\ alerts' = <<>>
    /\ violations' = <<>>
    /\ all_alerts' = <<>>
    /\ output' = <<>>
    /\ event' = EmptyEvent
    /\ pulls' = <<>>
    /\ pr_number' = None
    /\ found' = 0
    /\ calls' = <<>>
    /\ steps' = <<>>
    /\ exit_code' = None
    /\ raised' = ""
    /\ alert_thresholds' \in ThresholdTables
    /\ report_mode' \in BOOLEAN
    /\ event_name' \in EventNames
    /\ UNCHANGED <<other, clock, open_pulls, comments>>

Next ==
    \/ GetDependabotAlerts
    \/ AnalyzeAlerts
    \/ FormatAlertOutput
    \/ ReadEventFile
    \/ GetPrNumber
    \/ PostPrComment
    \/ GetPull
    \/ GetIssueComments
    \/ WriteComment
    \/ RevokeInstallationToken
    \/ SysExit
    \/ NextRun

Spec == Init /\ [][Next]_vars

\* ------------------------------------------- analyze_alerts on its own

\* analyze_alerts called with any list of alerts, open or not, and either
\* threshold table.
InitAnalyze ==
    /\ pc = "analyze_alerts"
    /\ alert_thresholds \in ThresholdTables
    /\ report_mode = FALSE
    /\ event_name = "schedule"
    /\ fetch_error = FetchOk
    /\ alerts \in AlertLists(MaxAlerts)
    /\ clock \in ClockReads(Len(alerts))
    /\ violations = <<>>
    /\ all_alerts = <<>>
    /\ output = <<>>
    /\ event = EmptyEvent
    /\ pulls = <<>>
    /\ pr_number = None
    /\ found = 0
    /\ open_pulls = {ThePull}
    /\ comments = [n \in open_pulls |-> <<>>]
    /\ calls = <<>>
    /\ steps = <<>>
    /\ exit_code = None
    /\ raised = ""
    /\ NoOtherRun

NextAnalyze == AnalyzeAlerts

SpecAnalyze == InitAnalyze /\ [][NextAnalyze]_vars

\* ------------------------------------------- get_pr_number on its own

\* The event file is read and get_pr_number called, for any event name, in a
\* repository with several open pull requests; post_pr_comment then decides
\* whether a comment is due.
InitLocate ==
    /\ pc = "read_event_file"
    /\ clock = <<>>
    /\ alert_thresholds = get_thresholds_from_env
    /\ report_mode = FALSE
    /\ event_name \in EventNames
    /\ fetch_error = FetchOk
    /\ alerts = <<>>
    /\ violations = <<>>
    /\ all_alerts = <<>>
    /\ output = format_alert_output(<<>>, <<>>, FALSE)
    /\ event = EmptyEvent
    /\ pulls = <<>>
    /\ pr_number = None
    /\ found = 0
    /\ open_pulls = PullNumbers
    /\ comments = [n \in open_pulls |-> <<>>]
    /\ calls = <<>>
    /\ steps = <<>>
    /\ exit_code = None
    /\ raised = ""
    /\ NoOtherRun

NextLocate == ReadEventFile \/ GetPrNumber \/ PostPrComment

SpecLocate == InitLocate /\ [][NextLocate]_vars

\* --------------------------------------- format_alert_output on its own

\* Entries as analyze_alerts builds them and the formatter's tests pass
\* them.
ReportEntries ==
    { [severity |-> "HIGH", age_days |-> 10, threshold_days |-> 5,
       url |-> 1, created_at |-> "2025-02-01 12:00:00 UTC"],
      [severity |-> "LOW", age_days |-> 3, threshold_days |-> 30,
       url |-> 2, created_at |-> "2025-02-07 12:00:00 UTC"],
      [severity |-> "CRITICAL", age_days |-> 4, threshold_days |-> 3,
       url |-> 3, created_at |-> "2025-02-06 12:00:00 UTC"] }

\* format_alert_output called with any two lists of entries (the tests pass
\* lists that analyze_alerts did not build) and either mode.
InitFormat ==
    /\ pc = "format_alert_output"
    /\ clock = <<>>
    /\ alert_thresholds = get_thresholds_from_env
    /\ report_mode \in BOOLEAN
    /\ event_name = "schedule"
    /\ fetch_error = FetchOk
    /\ alerts = <<>>
    /\ violations \in SeqsUpTo(ReportEntries, MaxReport)
    /\ all_alerts \in SeqsUpTo(ReportEntries, MaxReport)
    /\ output = <<>>
    /\ event = EmptyEvent
    /\ pulls = <<>>
    /\ pr_number = None
    /\ found = 0
    /\ open_pulls = {ThePull}
    /\ comments = [n \in open_pulls |-> <<>>]
    /\ calls = <<>>
    /\ steps = <<>>
    /\ exit_code = None
    /\ raised = ""
    /\ NoOtherRun

\* The caller calls format_alert_output once more with the arguments of the
\* call that has returned.
FormatAgain ==
    /\ pc = "read_event_file"
    /\ Len(steps) < 2
    /\ pc' = "format_alert_output"
    /\ UNCHANGED <<other, clock, args, fetch_error, locals, open_pulls, comments,
                   calls, steps, exit_code, raised>>

NextFormat == FormatAlertOutput \/ FormatAgain

SpecFormat == InitFormat /\ [][NextFormat]_vars

\* ------------------------------- two runs publishing on one pull request

\* What a run leaves alone while the second run takes a step.
this_run == <<pc, clock, args, fetch_error, locals, open_pulls, calls, steps,
              exit_code, raised>>

\* Where the second run goes when a request of its publisher fails.
OtherPublishFailed(error) ==
    IF on_publish_error(error) = "return" THEN "revoke_installation_token"
    ELSE "done"

\* The second run's pr = repo.get_pull(pr_number).
OtherGetPull ==
    /\ other_pc = "get_pull"
    /\ \E error \in ApiErrors :
        other_pc' = IF error = "" THEN "get_issue_comments"
                    ELSE OtherPublishFailed(error)
    /\ UNCHANGED <<this_run, comments, other_found>>

\* The second run's loop over pr.get_issue_comments().
OtherGetIssueComments ==
    /\ other_pc = "get_issue_comments"
    /\ \E error \in ApiErrors :
        IF error = ""
        THEN /\ other_found' = first_marked(comments[ThePull])
             /\ other_pc' = "write_comment"
        ELSE /\ other_found' = other_found
             /\ other_pc' = OtherPublishFailed(error)
    /\ UNCHANGED <<this_run, comments>>

\* The second run's comment.edit(body) or pr.create_issue_comment(body); for
\* the same commit and settings its body is the first run's.
OtherWriteComment ==
    /\ other_pc = "write_comment"
    /\ LET w == publish(comments[ThePull], other_found, output)
       IN  \E error \in ApiErrors :
            IF error = ""
            THEN /\ comments' = [comments EXCEPT ![ThePull] = w.comments]
                 /\ other_pc' = "revoke_installation_token"
            ELSE /\ comments' = comments
                 /\ other_pc' = OtherPublishFailed(error)
    /\ UNCHANGED <<this_run, other_found>>

\* Two workflow runs (one for the push, one for the pull_request event of
\* the same commit) have both reached create_or_update_pr_comment for the
\* same pull request, which holds no summary yet.
InitOverlap ==
    /\ pc = "get_pull"
    /\ other_pc = "get_pull"
    /\ other_found = 0
    /\ clock = [i \in 1..MaxRunAlerts |-> Now0]
    /\ alert_thresholds = get_thresholds_from_env
    /\ report_mode \in BOOLEAN
    /\ event_name \in {"pull_request", "push"}
    /\ fetch_error = FetchOk
    /\ alerts \in RunAlertLists
    /\ LET a == analyze_alerts(alerts, alert_thresholds, clock) IN
        /\ violations = a.violations
        /\ all_alerts = a.all_alerts
    /\ output = format_alert_output(violations, all_alerts, report_mode)
    /\ event = EmptyEvent
    /\ pulls = <<>>
    /\ pr_number = Some(ThePull)
    /\ found = 0
    /\ open_pulls = {ThePull}
    /\ comments \in [open_pulls -> {<<>>, <<HumanComment>>}]
    /\ calls = <<Call("get_dependabot_alerts", "")>>
    /\ steps = <<"get_dependabot_alerts", "analyze_alerts",
                 "format_alert_output", "read_event_file", "get_pr_number",
                 "post_pr_comment">>
    /\ exit_code = None
    /\ raised = ""

NextOverlap ==
    \/ GetPull
    \/ GetIssueComments
    \/ WriteComment
    \/ OtherGetPull
    \/ OtherGetIssueComments
    \/ OtherWriteComment

SpecOverlap == InitOverlap /\ [][NextOverlap]_vars

\* ----------------------------------------------------------------- claims

Last(s) == s[Len(s)]

\* The run issued this API request (whatever it answered).
Issued(api) == \E i \in 1..Len(calls) : calls[i].api = api

\* The revocation request was made and succeeded.
Revoked == calls # <<>> /\ Last(calls) = Call(RevokeCall, "")

\* The analysis returned (SpecAnalyze stops there).
Analyzed == pc = "format_alert_output"

\* C1: a run whose fetch, analysis and revocation succeeded ends with exit
\* code 1 exactly when there are violations and report_mode is false, and
\* with exit code 0 otherwise.
C1_ExitPolicy ==
    (pc = "done" /\ fetch_error = FetchOk /\ Revoked) =>
        /\ raised = ""
        /\ (violations # <<>> /\ ~report_mode) => exit_code = Some(1)
        /\ (violations = <<>> \/ report_mode) => exit_code = Some(0)

C1_Witness ==
    /\ pc = "done" /\ fetch_error = FetchOk /\ Revoked
    /\ violations # <<>> /\ ~report_mode
    /\ exit_code = Some(1)

\* C2: every open alert of the input has its entry in all_alerts, which
\* carries the threshold of the alert's upper-cased severity and is among the
\* violations exactly when its age is strictly above that threshold.
C2_ViolationIffOverThreshold ==
    Analyzed =>
        \A i \in 1..Len(alerts) :
            alerts[i].state = "open" =>
                \E k \in 1..Len(all_alerts) :
                    LET a == all_alerts[k] IN
                    /\ a.url = alerts[i].html_url
                    /\ a.severity \in {"CRITICAL", "HIGH", "MEDIUM", "LOW"}
                    /\ a.severity \in DOMAIN alert_thresholds
                    /\ a.threshold_days = alert_thresholds[a.severity]
                    /\ (a \in Range(violations)) <=> (a.age_days > a.threshold_days)

\* An alert whose age equals its threshold is kept but is no violation,
\* beside one that is.
C2_Witness ==
    /\ Analyzed
    /\ violations # <<>>
    /\ \E i \in 1..Len(all_alerts) :
        /\ all_alerts[i].age_days = all_alerts[i].threshold_days
        /\ all_alerts[i] \notin Range(violations)

IsOpen(a) == a.state = "open"
InViolations(a) == a \in Range(violations)
Urls(list) == [i \in 1..Len(list) |-> list[i].url]

\* C3: all_alerts holds the open alerts of the input, each once and in input
\* order, and nothing else; violations is a subsequence of all_alerts.
C3_OpenAlertsInOrder ==
    Analyzed =>
        /\ LET open == SelectSeq(alerts, IsOpen)
           IN  Urls(all_alerts) = [i \in 1..Len(open) |-> open[i].html_url]
        /\ violations = SelectSeq(all_alerts, InViolations)

\* A list with an alert that is not open before an open one that is a
\* violation.
C3_Witness ==
    /\ Analyzed
    /\ Len(alerts) = 2
    /\ alerts[1].state = "dismissed"
    /\ Len(all_alerts) = 1
    /\ all_alerts[1].url = 2
    /\ violations = all_alerts

Writes == {"edit", "create_issue_comment"}
WriteCalls(log) == {i \in 1..Len(log) : log[i].api \in Writes}
CallsOk(log) == \A i \in 1..Len(log) : log[i].error = ""

\* The step is the write of create_or_update_pr_comment, and every API
\* request of the run has succeeded, this one included.
WriteStepOk ==
    /\ pc = "write_comment"
    /\ pc' # pc
    /\ CallsOk(calls')

\* C4: a call of create_or_update_pr_comment whose requests all succeed
\* makes one write: an edit of the first comment that holds the marker, the
\* other comments kept, when there is one; else one create, appended.
C4_OneWrite ==
    [][WriteStepOk =>
        LET n == TheValue(pr_number)
            old == comments[n]
            new == comments'[n]
        IN  /\ Cardinality(WriteCalls(calls')) = 1
            /\ IF \E i \in 1..Len(old) : Contains(old[i], Marker)
               THEN /\ Last(calls').api = "edit"
                    /\ \E i \in 1..Len(old) :
                        /\ Contains(old[i], Marker)
                        /\ \A j \in 1..(i - 1) : ~Contains(old[j], Marker)
                        /\ new = [old EXCEPT ![i] = output]
               ELSE /\ Last(calls').api = "create_issue_comment"
                    /\ new = Append(old, output)]_vars

\* Two comments held the marker: the first was edited, the second is as it
\* was.
C4_Witness ==
    /\ pc = "revoke_installation_token"
    /\ CallsOk(calls)
    /\ calls # <<>> /\ Last(calls).api = "edit"
    /\ comments[ThePull] = <<HumanComment, output, OlderComment>>

\* C5: the runs never add a marked comment to a pull request that has one,
\* and take a pull request without one to at most one: where one exists it
\* is only replaced.
C5_AtMostOneSummary ==
    [][\A n \in open_pulls :
        LET old == comments[n]
            new == comments'[n]
        IN  /\ MarkerCount(old) = 0 => MarkerCount(new) <= 1
            /\ MarkerCount(old) = 1 =>
                /\ MarkerCount(new) = 1
                /\ Len(new) = Len(old)]_vars

\* A later run has replaced the body of the one summary, made by an earlier
\* run on a pull request that had none.
C5_Witness ==
    /\ pc = "revoke_installation_token"
    /\ calls # <<>> /\ Last(calls) = Call("edit", "")
    /\ comments[ThePull] = <<HumanComment, output>>

Disabled(e) == e.status = 403 /\ e.message = DisabledMessage

\* C6: when the fetch fails because the alerts are disabled, the run goes on
\* as with no alerts: it does not end in the fetch, and ends with exit code 0
\* once the token is revoked.
C6_DisabledIsNotFatal ==
    Disabled(fetch_error) =>
        /\ ~(pc = "done" /\ Last(steps) = "get_dependabot_alerts")
        /\ (pc = "done" /\ Revoked) => exit_code = Some(0)

\* C7: a fetch error that is not the alerts-disabled one ends the run in the
\* fetch, nothing else called: with sys.exit(1) for a 403, with the exception
\* raised again otherwise.
C7_FetchErrorIsFatal ==
    (fetch_error # FetchOk /\ ~Disabled(fetch_error)) =>
        /\ pc = "done"
        /\ steps = <<"get_dependabot_alerts">>
        /\ Len(calls) = 1 /\ calls[1].api = "get_dependabot_alerts"
        /\ alerts = <<>> /\ all_alerts = <<>> /\ violations = <<>>
        /\ IF fetch_error.status = 403
           THEN exit_code = Some(1) /\ raised = ""
           ELSE raised = fetch_error.type

C7_Witness ==
    /\ fetch_error.status = 403 /\ fetch_error.message = "Forbidden"
    /\ pc = "done"
    /\ exit_code = Some(1)
    /\ raised = ""

\* The run ended inside the fetch, the analysis or the PR lookup.
EndedEarly ==
    steps # <<>> /\
    Last(steps) \in {"get_dependabot_alerts", "analyze_alerts", "get_pr_number"}

\* C8 as stated: every run that has ended has issued the revocation request.
C8_AlwaysRevoked == pc = "done" => Issued(RevokeCall)

\* C8, amended: a run that has ended has issued the revocation request, as
\* its last request, unless it ended inside the fetch, the analysis or the PR
\* lookup, and then it has issued none.
C8_RevokedUnlessEndedEarly ==
    pc = "done" =>
        IF EndedEarly
        THEN ~Issued(RevokeCall)
        ELSE /\ Last(calls).api = RevokeCall
             /\ Cardinality({i \in 1..Len(calls) : calls[i].api = RevokeCall}) = 1

\* A blocking run with violations, whose comment request failed, revoked the
\* token before it exited with 1.
C8_Witness ==
    /\ pc = "done"
    /\ Revoked
    /\ exit_code = Some(1)
    /\ \E i \in 1..Len(calls) : calls[i] = Call("get_pull", "GithubException")

MainSteps ==
    <<"get_dependabot_alerts", "analyze_alerts", "format_alert_output",
      "read_event_file", "get_pr_number", "post_pr_comment",
      "revoke_installation_token">>

RevokeFailed == calls # <<>> /\ Last(calls) = Call(RevokeCall, "GithubException")

\* C9: a revocation request that fails with a GithubException ends the run
\* with exit code 1 whatever the violations and the report mode, after every
\* other step of the run.
C9_RevokeFailureIsFatal ==
    RevokeFailed =>
        /\ pc = "done"
        /\ exit_code = Some(1)
        /\ raised = ""
        /\ steps = MainSteps

\* No violations, and yet exit code 1.
C9_Witness ==
    /\ RevokeFailed
    /\ pc = "done"
    /\ violations = <<>>
    /\ all_alerts # <<>>
    /\ exit_code = Some(1)

\* get_pr_number has returned.
Located == pc = "post_pr_comment" \/ "post_pr_comment" \in Range(steps)

PayloadNumber ==
    IF event.pull_request = None THEN None
    ELSE TheValue(event.pull_request).number

BranchRef ==
    /\ event.ref # None
    /\ Len(TheValue(event.ref)) = 2
    /\ TheValue(event.ref)[1] = "refs/heads/"

\* What get_pr_number returns for a push, and for any other event but
\* pull_request; the search is made for a push of a branch only.
PushAndOtherEvents ==
    /\ (event_name = "push" /\ BranchRef) =>
        /\ Issued("get_pulls")
        /\ pr_number = IF pulls = <<>> THEN None ELSE Some(pulls[1])
    /\ (event_name = "push" /\ ~BranchRef) => pr_number = None
    /\ event_name \notin {"pull_request", "push"} => pr_number = None
    /\ Issued("get_pulls") => (event_name = "push" /\ BranchRef)

\* C10 as stated: for pull_request the payload's number, whatever it is.
C10_PrNumberAsStated ==
    Located =>
        /\ event_name = "pull_request" => pr_number = PayloadNumber
        /\ PushAndOtherEvents

\* C10, amended: for pull_request the payload's number when there is one and
\* it is not 0, and None otherwise.
C10_PrNumber ==
    Located =>
        /\ event_name = "pull_request" =>
            pr_number = IF PayloadNumber # None /\ PayloadNumber # Some(0)
                        THEN PayloadNumber ELSE None
        /\ PushAndOtherEvents

\* The search returned several pull requests and the first one, not the
\* lowest, is the result.
C10_Witness ==
    /\ Located
    /\ event_name = "push"
    /\ Len(pulls) >= 2
    /\ pulls[1] > pulls[2]
    /\ pr_number = Some(pulls[1])

RECURSIVE Split(_, _)
\* text.split(sep) for a text whose separators are whole pieces: the lines,
\* each the pieces between two separators.
Split(text, sep) ==
    IF \A i \in 1..Len(text) : text[i] # sep
    THEN <<text>>
    ELSE LET k == CHOOSE i \in 1..Len(text) :
                    text[i] = sep /\ \A j \in 1..(i - 1) : text[j] # sep
         IN  <<SubSeq(text, 1, k - 1)>>
             \o Split(SubSeq(text, k + 1, Len(text)), sep)

ClosingLines == {<<WarningLine>>, <<FailureLine>>, <<SuccessLine>>}

\* The five lines of the block of violation v start at line k.
BlockAt(lines, k, v) ==
    /\ lines[k] = <<"\n\n#### ">>
    /\ lines[k + 1] = <<"- **Severity:** ", v.severity>>
    /\ lines[k + 2] = <<"- **Age:** ", ToString(v.age_days),
                        " days (Threshold: ", ToString(v.threshold_days), " days)">>
    /\ lines[k + 3] = <<"- **Created:** ", v.created_at>>
    /\ lines[k + 4] = <<"- **URL:** ", ToString(v.url)>>

\* The report is the marker line, the two counts, and then either the
\* success line alone or the heading, a block per violation in order and the
\* closing line of the mode.
ReportShape ==
    LET lines == Split(output, "\n")
        n == Len(violations)
    IN  /\ Len(lines) >= 4
        /\ lines[1] = <<Marker>>
        /\ lines[2] = <<"Total open alerts: ", ToString(Len(all_alerts))>>
        /\ lines[3] = <<"Alerts exceeding age threshold: ", ToString(n)>>
        /\ Cardinality({i \in 1..Len(lines) : lines[i] \in ClosingLines}) = 1
        /\ IF n = 0
           THEN /\ Len(lines) = 4
                /\ lines[4] = <<SuccessLine>>
           ELSE /\ Len(lines) = 5 + 5 * n
                /\ lines[4] = <<ViolationsHeading>>
                /\ \A k \in 1..n : BlockAt(lines, 5 * k, violations[k])
                /\ lines[Len(lines)] = IF report_mode THEN <<WarningLine>>
                                                      ELSE <<FailureLine>>

\* format_alert_output has returned.
Formatted == output # <<>>

\* C11: the text format_alert_output returns starts with the marker line,
\* the total line and the violation-count line; with no violations the rest
\* is the success line alone, in either mode; with violations it is the
\* heading, one block per violation in input order and one closing line, the
\* warning in report mode and the failure line otherwise.  A second call with
\* the same arguments returns the same text.
C11_ReportFormat ==
    /\ [](Formatted => ReportShape)
    /\ [][(pc = "format_alert_output" /\ Formatted) => output' = output]_vars

\* Two different violations (and another number of alerts) in report mode,
\* formatted twice.
C11_Witness ==
    /\ pc = "read_event_file"
    /\ Len(steps) = 2
    /\ report_mode
    /\ Len(violations) = 2
    /\ violations[1] # violations[2]
    /\ Len(all_alerts) = 1
    /\ Last(Split(output, "\n")) = <<WarningLine>>

\* The place of an API request in the order main_check_alerts makes them.
Rank(api) ==
    CASE api = "get_dependabot_alerts" -> 1
      [] api = "get_pulls" -> 2
      [] api = "get_pull" -> 3
      [] api = "get_issue_comments" -> 4
      [] api \in Writes -> 5
      [] api = RevokeCall -> 6

\* The step during which main_check_alerts makes an API request.
StepOf(api) ==
    CASE api = "get_dependabot_alerts" -> "get_dependabot_alerts"
      [] api = "get_pulls" -> "get_pr_number"
      [] api \in {"get_pull", "get_issue_comments"} \cup Writes -> "post_pr_comment"
      [] api = RevokeCall -> "revoke_installation_token"

\* sys.exit of the exit policy is next, or has been called.
ExitDecided == pc = "sys_exit" \/ (pc = "done" /\ Revoked)

\* C12: the steps of a run are called in the order fetch, analyze, format,
\* read event, locate PR, publish comment, revoke, exit, one at a time; the
\* API requests follow that order, so none follows the revocation request;
\* the exit code is decided after the comment step and the revocation.
C12_StepOrder ==
    /\ Len(steps) <= Len(MainSteps)
    /\ steps = SubSeq(MainSteps, 1, Len(steps))
    /\ \A i \in 1..Len(calls), j \in 1..Len(calls) :
        i < j => Rank(calls[i].api) < Rank(calls[j].api)
    /\ \A i \in 1..Len(calls) : StepOf(calls[i].api) \in Range(steps)
    /\ ExitDecided =>
        /\ steps = MainSteps
        /\ Last(calls).api = RevokeCall
    /\ (ExitDecided /\ pc = "done") =>
        exit_code = Some(exit_status(violations, report_mode))

\* A blocking run with violations has created its comment, then revoked the
\* token, then exited with 1.
C12_Witness ==
    /\ pc = "done"
    /\ violations # <<>> /\ ~report_mode
    /\ exit_code = Some(1)
    /\ Len(calls) = 5
    /\ calls[4] = Call("create_issue_comment", "")
    /\ calls[5] = Call(RevokeCall, "")
    /\ Last(comments[ThePull]) = output

PublisherCalls == {"get_pull", "get_issue_comments"} \cup Writes
PublisherSteps == {"get_pull", "get_issue_comments", "write_comment"}

\* post_pr_comment has been called.
CommentStepReached == "post_pr_comment" \in Range(steps)

\* C13: once the comment step is called, whether it is skipped for want of
\* a PR number, succeeds, or fails in any request of the publisher, the run
\* never ends in it: it goes on to the revocation request, and how it ends
\* depends on that request and the exit policy alone (the code of the exit
\* policy once the token is revoked).  Without a PR number the publisher
\* makes no request.
C13_CommentOutcomeIsIgnored ==
    CommentStepReached =>
        /\ pc \in PublisherSteps \cup {"revoke_installation_token", "sys_exit", "done"}
        /\ pc \in PublisherSteps => exit_code = None
        /\ pc = "done" =>
            /\ Last(steps) = "revoke_installation_token"
            /\ Last(calls).api = RevokeCall
            /\ raised = (IF Last(calls).error = "Exception" THEN "Exception" ELSE "")
            /\ exit_code = Some(IF Revoked
                                THEN exit_status(violations, report_mode)
                                ELSE 1)
        /\ (pr_number = None \/ pr_number = Some(0)) =>
            /\ pc \notin PublisherSteps
            /\ \A i \in 1..Len(calls) : calls[i].api \notin PublisherCalls

\* The create request failed with an exception that is no GithubException,
\* in a blocking run with violations: the token was revoked and the run
\* exited with 1, the pull request left without a summary.
C13_Witness ==
    /\ pc = "done"
    /\ \E i \in 1..Len(calls) : calls[i] = Call("create_issue_comment", "Exception")
    /\ Revoked
    /\ violations # <<>> /\ ~report_mode
    /\ exit_code = Some(1)
    /\ MarkerCount(comments[ThePull]) = 0

\* analyze_alerts has been called (SpecAnalyze stops after it).
AnalyzeCalled == steps = <<"analyze_alerts">>

\* Alert i is open and its upper-cased severity is no key of the table.
UnknownSeverity(i) ==
    /\ alerts[i].state = "open"
    /\ \A key \in DOMAIN alert_thresholds :
        key # (CASE alerts[i].severity = "high" -> "HIGH"
                 [] alerts[i].severity = "critical" -> "CRITICAL"
                 [] alerts[i].severity = "LOW" -> "LOW")

\* C14: analyze_alerts fails with a TypeError, returning nothing, exactly
\* when some open alert of its input has a severity the threshold table
\* lacks, wherever that alert stands in the list; alerts that are not open
\* never make it fail.
C14_UnknownSeverityRaises ==
    AnalyzeCalled =>
        IF \E i \in 1..Len(alerts) : UnknownSeverity(i)
        THEN /\ pc = "done"
             /\ raised = "TypeError"
             /\ exit_code = Some(1)
             /\ violations = <<>> /\ all_alerts = <<>>
        ELSE /\ pc = "format_alert_output"
             /\ raised = ""
             /\ exit_code = None

\* An open alert over its threshold comes first, an open alert of a
\* severity the table lacks second: nothing is returned for either.
C14_Witness ==
    /\ AnalyzeCalled
    /\ alert_thresholds = [HIGH |-> 5]
    /\ Len(alerts) = 2
    /\ alerts[1].state = "open" /\ alerts[1].severity = "high"
    /\ alerts[1].created_at = Now0 - 35 * SecondsPerDay
    /\ alerts[2].state = "open" /\ alerts[2].severity = "LOW"
    /\ raised = "TypeError"
    /\ all_alerts = <<>>

\* The age recorded for the alert with this url, read at its clock, is d.
AgeIs(url, d) ==
    \E k \in 1..Len(all_alerts) :
        all_alerts[k].url = url /\ all_alerts[k].age_days = d

\* C15: the age analyze_alerts records for an alert is the number d of whole
\* days with d*86400 <= now - created_at < (d+1)*86400, now being the clock
\* at that alert's get_alert_age call: 2 for two days, 35 for 35 days, 0 for
\* five hours, and -1 for a created_at one day ahead, read then or a second
\* later.
C15_AgeIsFloor ==
    Analyzed =>
        /\ \A k \in 1..Len(all_alerts) :
            LET i == all_alerts[k].url
                elapsed == clock[i] - alerts[i].created_at
                d == all_alerts[k].age_days
            IN  /\ d * 86400 <= elapsed
                /\ elapsed < (d + 1) * 86400
        /\ \A i \in 1..Len(alerts) :
            alerts[i].state = "open" =>
                /\ alerts[i].created_at = Now0 - 2 * 86400 => AgeIs(i, 2)
                /\ alerts[i].created_at = Now0 - 35 * 86400 => AgeIs(i, 35)
                /\ alerts[i].created_at = Now0 - 5 * 3600 => AgeIs(i, 0)
                /\ alerts[i].created_at = Now0 + 86400 => AgeIs(i, 0 - 1)

\* An alert created one day ahead, its age read a second after the age of a
\* two-day-old alert was read: -1.
C15_Witness ==
    /\ Analyzed
    /\ Len(all_alerts) = 2
    /\ alerts[1].created_at = Now0 - 2 * 86400
    /\ alerts[2].created_at = Now0 + 86400
    /\ clock = <<Now0, Now0 + 1>>
    /\ all_alerts[1].age_days = 2
    /\ all_alerts[2].age_days = 0 - 1

\* C16: with two runs publishing on the same pull request during
\* overlapping periods, started when it held no comment with the marker, the
\* pull request never holds two comments with the marker.
C16_AtMostOneSummaryOverlapping ==
    \A n \in open_pulls : MarkerCount(comments[n]) <= 1

====
